---- MODULE Spec2Model ----
(***************************************************************************)
(* Model of pydantic_extra_types/mac_address.py: the MacAddress value      *)
(* object, its validator validate_mac_address (text, integer and sequence  *)
(* paths) and its formatter __str__.                                       *)
(*                                                                         *)
(* Representation choices                                                  *)
(*  - a Python str is a sequence of one-character strings; the two tokens  *)
(*    "U+0660" and "U+0661" stand for the single characters ARABIC-INDIC   *)
(*    DIGIT ZERO and ONE (Unicode category Nd);                            *)
(*  - a Python int is arbitrary precision: its magnitude is the sequence   *)
(*    of its base-16 digits, most significant first, without leading zero  *)
(*    (zero is the empty sequence), and its sign is a flag;                *)
(*  - a value handed to the validator is a record                          *)
(*      [type, s, neg, mag, elems]                                         *)
(*    of which only the fields of its Python type are meaningful;          *)
(*  - an element of a sequence is [kind, val] with kind "int", "float" or  *)
(*    "str" (the latter two stand for objects that are not integers);      *)
(*  - the end of a call is an outcome record: status "ok" (returned bytes  *)
(*    in octets), "error" (PydanticCustomError with its type, message and  *)
(*    context n) or "fault" (any other exception, named in exc).           *)
(***************************************************************************)
EXTENDS Integers, Sequences, FiniteSets, TLC

Range(f) == {f[i] : i \in DOMAIN f}

(***************************************************************************)
(* Module constants                                                        *)
(***************************************************************************)
VIABLE_OCTET_COUNTS == <<6, 8, 20>>

VALID_DELIMETERS == {":", "-", "."}

DELIM_SPACING ==
    << [delim |-> <<":">>, spacing |-> 1],
       [delim |-> <<"-">>, spacing |-> 1],
       [delim |-> <<".">>, spacing |-> 2],
       [delim |-> <<>>,    spacing |-> 1] >>

\* ^[\dA-F]{width}(delims?)([\dA-F]{width}\1){reps}[\dA-F]{width}$ with
\* re.IGNORECASE: width hex characters per group, the optional delimiter
\* class of capture group 1, and the repeat count of the middle groups.
REGEX_PATTERNS ==
    << [width |-> 2, delims |-> {":", "-"}, reps |-> 4],
       [width |-> 2, delims |-> {":", "-"}, reps |-> 6],
       [width |-> 2, delims |-> {":", "-"}, reps |-> 18],
       [width |-> 4, delims |-> {"."},      reps |-> 1],
       [width |-> 4, delims |-> {"."},      reps |-> 2],
       [width |-> 4, delims |-> {"."},      reps |-> 8] >>

(***************************************************************************)
(* Characters                                                              *)
(***************************************************************************)
LowerHex == <<"0","1","2","3","4","5","6","7","8","9","a","b","c","d","e","f">>

UpperHex == <<"0","1","2","3","4","5","6","7","8","9","A","B","C","D","E","F">>

UnicodeDigits == <<"U+0660", "U+0661">>

\* str.isspace characters that int() strips
Whitespace == {" ", "\n", "\t", "\r"}

\* the regex class [\dA-F] under re.IGNORECASE on a str pattern:
\* \d is every Unicode decimal digit, A-F matches both cases
RegexHexClass(c) ==
    \/ c \in Range(UpperHex)
    \/ c \in Range(LowerHex)
    \/ c \in Range(UnicodeDigits)

\* the digits int(text, 16) accepts, and their values
IntDigit(c) ==
    \/ c \in Range(UpperHex)
    \/ c \in Range(LowerHex)
    \/ c \in Range(UnicodeDigits)

DigitValue(c) ==
    IF c \in Range(LowerHex) THEN (CHOOSE i \in 1..16 : LowerHex[i] = c) - 1
    ELSE IF c \in Range(UpperHex) THEN (CHOOSE i \in 1..16 : UpperHex[i] = c) - 1
    ELSE (CHOOSE i \in 1..Len(UnicodeDigits) : UnicodeDigits[i] = c) - 1

(***************************************************************************)
(* Values and outcomes                                                     *)
(***************************************************************************)
StrValue(s) == [type |-> "str", s |-> s, neg |-> FALSE, mag |-> <<>>, elems |-> <<>>]

IntValue(neg, mag) == [type |-> "int", s |-> <<>>, neg |-> neg, mag |-> mag, elems |-> <<>>]

\* list / tuple of arbitrary objects
SeqValue(elems) == [type |-> "seq", s |-> <<>>, neg |-> FALSE, mag |-> <<>>, elems |-> elems]

\* an object that is neither str, int nor Sequence (None, float, dict)
OtherValue == [type |-> "other", s |-> <<>>, neg |-> FALSE, mag |-> <<>>, elems |-> <<>>]

IntElem(v) == [kind |-> "int", val |-> v]

\* bytes: a Sequence whose elements are ints in 0..255
BytesValue(octets) ==
    [type |-> "bytes", s |-> <<>>, neg |-> FALSE, mag |-> <<>>,
     elems |-> [i \in 1..Len(octets) |-> IntElem(octets[i])]]

Ok(octets) ==
    [status |-> "ok", octets |-> octets, etype |-> "", msg |-> "", n |-> -1, exc |-> ""]

PydanticCustomError(etype, msg, n) ==
    [status |-> "error", octets |-> <<>>, etype |-> etype, msg |-> msg, n |-> n, exc |-> ""]

Fault(exc) ==
    [status |-> "fault", octets |-> <<>>, etype |-> "", msg |-> "", n |-> -1, exc |-> exc]

NoOutcome ==
    [status |-> "none", octets |-> <<>>, etype |-> "", msg |-> "", n |-> -1, exc |-> ""]

\* a step of the validator: either it raised (outcome) or it goes on with value
Raise(outcome) == [raised |-> TRUE, outcome |-> outcome, value |-> OtherValue]

Continue(value) == [raised |-> FALSE, outcome |-> NoOutcome, value |-> value]

(***************************************************************************)
(* Python built-ins used by the validator                                  *)
(***************************************************************************)
\* int magnitude: drop leading zero digits
Normalize(digits) ==
    IF \A i \in 1..Len(digits) : digits[i] = 0 THEN <<>>
    ELSE LET k == CHOOSE j \in 1..Len(digits) :
                      /\ digits[j] # 0
                      /\ \A i \in 1..(j-1) : digits[i] = 0
         IN SubSeq(digits, k, Len(digits))

\* str.strip() as applied by int() to its argument
Strip(s) ==
    IF \A i \in 1..Len(s) : s[i] \in Whitespace THEN <<>>
    ELSE LET lo == CHOOSE j \in 1..Len(s) :
                       /\ s[j] \notin Whitespace
                       /\ \A i \in 1..(j-1) : s[i] \in Whitespace
             hi == CHOOSE j \in 1..Len(s) :
                       /\ s[j] \notin Whitespace
                       /\ \A i \in (j+1)..Len(s) : s[i] \in Whitespace
         IN SubSeq(s, lo, hi)

\* int(text, 16): [ok, mag]; not ok is ValueError
IntBase16(text) ==
    LET t == Strip(text)
    IN IF t = <<>> \/ \E i \in 1..Len(t) : ~IntDigit(t[i])
       THEN [ok |-> FALSE, mag |-> <<>>]
       ELSE [ok |-> TRUE, mag |-> Normalize([i \in 1..Len(t) |-> DigitValue(t[i])])]

\* int.bit_length()
bit_length(mag) ==
    IF mag = <<>> THEN 0
    ELSE 4 * (Len(mag) - 1)
         + (IF mag[1] >= 8 THEN 4 ELSE IF mag[1] >= 4 THEN 3
            ELSE IF mag[1] >= 2 THEN 2 ELSE 1)

\* to_bytes with the minimal length instead of the requested one (no padding)
to_bytes_minimal(mag, length) ==
    IF Len(mag) > 2 * length
    THEN [ok |-> FALSE, octets |-> <<>>]
    ELSE LET need == (Len(mag) + 1) \div 2
             pad == 2 * need - Len(mag)
             digit(i) == IF i <= pad THEN 0 ELSE mag[i - pad]
         IN [ok |-> TRUE,
             octets |-> [i \in 1..need |-> 16 * digit(2*i - 1) + digit(2*i)]]

\* int.to_bytes(length, 'big'): [ok, octets]; not ok is OverflowError
to_bytes(mag, length) ==
    IF Len(mag) > 2 * length
    THEN [ok |-> FALSE, octets |-> <<>>]
    ELSE LET pad == 2 * length - Len(mag)
             digit(i) == IF i <= pad THEN 0 ELSE mag[i - pad]
         IN [ok |-> TRUE,
             octets |-> [i \in 1..length |-> 16 * digit(2*i - 1) + digit(2*i)]]

\* str.replace(old, ''), old being empty or one character
Replace(s, old) ==
    IF old = <<>> THEN s
    ELSE LET keep(c) == c # old[1] IN SelectSeq(s, keep)

\* bytes.hex('-') in place of bytes.hex(':')
BytesHexDash(octets) ==
    [i \in 1..(IF octets = <<>> THEN 0 ELSE 3 * Len(octets) - 1) |->
        IF i % 3 = 0 THEN "-"
        ELSE IF i % 3 = 1 THEN LowerHex[(octets[(i - 1) \div 3 + 1] \div 16) + 1]
        ELSE LowerHex[(octets[(i - 1) \div 3 + 1] % 16) + 1]]

\* bytes.hex(':'): two lowercase hex digits per octet, joined by ':'
BytesHex(octets) ==
    [i \in 1..(IF octets = <<>> THEN 0 ELSE 3 * Len(octets) - 1) |->
        IF i % 3 = 0 THEN ":"
        ELSE IF i % 3 = 1 THEN LowerHex[(octets[(i - 1) \div 3 + 1] \div 16) + 1]
        ELSE LowerHex[(octets[(i - 1) \div 3 + 1] % 16) + 1]]

(***************************************************************************)
(* re.Pattern.match for the patterns of REGEX_PATTERNS                     *)
(***************************************************************************)
\* the pattern without its back-reference: every boundary takes any delimiter
\* of the class
MatchesWithAnyDelimiter(p, s, g) ==
    LET w    == p.width
        unit == w + Len(g)
        body == (p.reps + 1) * unit
        total == body + w
    IN /\ \/ Len(s) = total
          \/ Len(s) = total + 1 /\ s[total + 1] = "\n"
       /\ \A i \in 1..total :
            IF i <= body /\ (i - 1) % unit >= w
            THEN s[i] \in p.delims
            ELSE RegexHexClass(s[i])

\* Does s match pattern p when capture group 1 takes the value g (empty or
\* one delimiter)?  The groups are laid out as
\*   H{w} g (H{w} g){reps} H{w} $
\* and $ matches at the end of the string or just before a final "\n".
MatchesWith(p, s, g) ==
    LET w    == p.width
        unit == w + Len(g)
        body == (p.reps + 1) * unit
        total == body + w
    IN /\ \/ Len(s) = total
          \/ Len(s) = total + 1 /\ s[total + 1] = "\n"
       /\ \A i \in 1..total :
            IF i <= body /\ (i - 1) % unit >= w
            THEN s[i] = g[1]
            ELSE RegexHexClass(s[i])

\* pattern.match(value): [matched, group1].  ([:-]?) is greedy: the delimiter
\* is tried first, the empty string on backtracking.
Match(p, s) ==
    LET w == p.width
        taken == IF Len(s) > w /\ s[w + 1] \in p.delims THEN <<s[w + 1]>> ELSE <<>>
    IN IF taken # <<>> /\ MatchesWith(p, s, taken)
       THEN [matched |-> TRUE, group1 |-> taken]
       ELSE IF MatchesWith(p, s, <<>>)
       THEN [matched |-> TRUE, group1 |-> <<>>]
       ELSE [matched |-> FALSE, group1 |-> <<>>]

\* for pattern in REGEX_PATTERNS: mac_match = mac_match or pattern.match(value)
FirstMatch(s) ==
    IF \A i \in 1..Len(REGEX_PATTERNS) : ~Match(REGEX_PATTERNS[i], s).matched
    THEN [matched |-> FALSE, group1 |-> <<>>]
    ELSE LET k == CHOOSE j \in 1..Len(REGEX_PATTERNS) :
                      /\ Match(REGEX_PATTERNS[j], s).matched
                      /\ \A i \in 1..(j-1) : ~Match(REGEX_PATTERNS[i], s).matched
         IN Match(REGEX_PATTERNS[k], s)

(***************************************************************************)
(* validate_mac_address, branch by branch                                  *)
(***************************************************************************)
\* if isinstance(value, str): ...
StrBranch(value) ==
    IF value.type # "str" THEN Continue(value)
    ELSE LET mac_match == FirstMatch(value.s)
         IN IF ~mac_match.matched
            THEN Raise(PydanticCustomError("mac_address_format",
                        "Length and/or format of MAC address string is incorrect.", -1))
            ELSE LET stripped   == Replace(value.s, mac_match.group1)
                     num_octets == Len(stripped) \div 2
                     parsed     == IntBase16(stripped)
                 IN IF ~parsed.ok THEN Raise(Fault("ValueError"))
                    ELSE LET b == to_bytes(parsed.mag, num_octets)
                         IN IF ~b.ok THEN Raise(Fault("OverflowError"))
                            ELSE Continue(BytesValue(b.octets))

\* the minimal count itself, without the scan of the viable counts
SelectNumOctetsMinimal(min_octets) == min_octets

\* for num_octets in (*VIABLE_OCTET_COUNTS, min_octets):
\*     if num_octets >= min_octets: break
SelectNumOctets(min_octets) ==
    LET candidates == VIABLE_OCTET_COUNTS \o <<min_octets>>
        k == CHOOSE j \in 1..Len(candidates) :
                 /\ candidates[j] >= min_octets
                 /\ \A i \in 1..(j-1) : candidates[i] < min_octets
    IN candidates[k]

\* min_octets, rem = divmod(value.bit_length(), 8); min_octets += rem > 0
MinOctets(mag) ==
    (bit_length(mag) \div 8) + (IF bit_length(mag) % 8 > 0 THEN 1 ELSE 0)

\* if isinstance(value, int) and value >= 0: ...
IntBranch(value) ==
    IF value.type # "int" \/ value.neg THEN Continue(value)
    ELSE LET b == to_bytes(value.mag, SelectNumOctets(MinOctets(value.mag)))
         IN IF ~b.ok THEN Raise(Fault("OverflowError"))
            ELSE Continue(BytesValue(b.octets))

\* if not isinstance(value, Sequence) or not isinstance(value[0], int): raise
SequenceCheck(value) ==
    IF value.type \notin {"seq", "bytes"}
    THEN Raise(PydanticCustomError("mac_address_format",
                                   "MAC Address format unrecognized.", -1))
    ELSE IF value.elems = <<>> THEN Raise(Fault("IndexError"))
    ELSE IF value.elems[1].kind # "int"
    THEN Raise(PydanticCustomError("mac_address_format",
                                   "MAC Address format unrecognized.", -1))
    ELSE Continue(value)

\* if any([octet > 0xff for octet in value]): raise
\* (the list is built in full: a str element makes the comparison a TypeError)
OctetCheck(value) ==
    IF \E i \in 1..Len(value.elems) : value.elems[i].kind = "str"
    THEN Raise(Fault("TypeError"))
    ELSE IF \E i \in 1..Len(value.elems) : value.elems[i].val > 255
    THEN Raise(PydanticCustomError("mac_address_format",
                "Octets are strictly 8-bit, cannot be bigger than 255.", -1))
    ELSE Continue(value)

\* the length check left out
LengthCheckSkipped(value) == Continue(value)

\* if len(value) not in VIABLE_OCTET_COUNTS: raise
LengthCheck(value) ==
    IF Len(value.elems) \notin Range(VIABLE_OCTET_COUNTS)
    THEN Raise(PydanticCustomError("mac_address_format",
                "Length of MAC Address (number of octets) must be in {valid} got {n}.",
                Len(value.elems)))
    ELSE Continue(value)

\* return bytes(value): the first element that is not an integer in
\* range(0, 256) raises (TypeError for a non-integer, ValueError otherwise)
Bytes(value) ==
    LET bad(i) == value.elems[i].kind # "int"
                  \/ value.elems[i].val < 0 \/ value.elems[i].val > 255
    IN IF \E i \in 1..Len(value.elems) : bad(i)
       THEN LET k == CHOOSE j \in 1..Len(value.elems) :
                         bad(j) /\ \A i \in 1..(j-1) : ~bad(i)
            IN IF value.elems[k].kind # "int" THEN Fault("TypeError")
               ELSE Fault("ValueError")
       ELSE Ok([i \in 1..Len(value.elems) |-> value.elems[i].val])

validate_mac_address(value) ==
    LET a == StrBranch(value) IN
    IF a.raised THEN a.outcome ELSE
    LET b == IntBranch(a.value) IN
    IF b.raised THEN b.outcome ELSE
    LET c == SequenceCheck(b.value) IN
    IF c.raised THEN c.outcome ELSE
    LET d == OctetCheck(c.value) IN
    IF d.raised THEN d.outcome ELSE
    LET e == LengthCheck(d.value) IN
    IF e.raised THEN e.outcome ELSE
    Bytes(e.value)

(***************************************************************************)
(* Inputs                                                                  *)
(***************************************************************************)
\* how far the group count of a generated string strays from a viable one
MaxGroupSlack == 1

\* longest generated sequence input
MaxSeqLen == 21

\* most hex digits of a generated integer input
MaxIntDigits == 42

\* two-character texts of one octet
OctetTexts == { <<"0","0">>, <<"5","e">>, <<"F","f">>, <<"0","A">> }

\* what takes the place of an octet text in a malformed string
BrokenOctetTexts ==
    { <<"0">>, <<"g","0">>, <<"0","0","0">>, <<"U+0660","U+0661">>, <<"0"," ">> }

\* the text of the group-th group: spacing octets, each two characters
GroupText(octs, spacing, group) ==
    IF spacing = 1 THEN octs[group] ELSE octs[2 * group - 1] \o octs[2 * group]

RECURSIVE JoinGroups(_, _, _, _, _)
\* groups from..count of octs, joined by seps[boundary]
JoinGroups(octs, spacing, seps, from, count) ==
    IF from > count THEN <<>>
    ELSE IF from = count THEN GroupText(octs, spacing, from)
    ELSE GroupText(octs, spacing, from) \o seps[from]
         \o JoinGroups(octs, spacing, seps, from + 1, count)

\* octets head, body, ..., body, tail, except for octet `at`, which is `special`
OctetRow(n, head, body, tail, at, special) ==
    [i \in 1..n |-> IF i = at THEN special
                    ELSE IF i = 1 THEN head ELSE IF i = n THEN tail ELSE body]

\* the string of `groups` groups in convention conv, with separator `alt`
\* at boundary `sepAt`, between prefix and suffix
MakeText(groups, conv, octs, sepAt, alt, pre, suf) ==
    pre \o JoinGroups(octs, conv.spacing,
                      [b \in 1..(groups - 1) |-> IF b = sepAt THEN alt ELSE conv.delim],
                      1, groups)
        \o suf

Conventions == Range(DELIM_SPACING)

\* every accepted convention and width, in mixed letter case
WellFormedTexts ==
    { MakeText(v \div c.spacing, c, OctetRow(v, h, b, t, 0, h), 0, <<>>, <<>>, <<>>) :
        v \in Range(VIABLE_OCTET_COUNTS), c \in Conventions,
        h \in OctetTexts, b \in OctetTexts, t \in OctetTexts }

\* a group count next to a viable one
WrongCountTexts ==
    UNION { { MakeText(g, c, OctetRow(g * c.spacing, h, <<"5","e">>, t, 0, h),
                       0, <<>>, <<>>, <<>>) :
                g \in ((v \div c.spacing) - MaxGroupSlack)..((v \div c.spacing) + MaxGroupSlack),
                h \in {<<"0","0">>, <<"F","f">>}, t \in {<<"0","0">>, <<"0","A">>} } :
            v \in Range(VIABLE_OCTET_COUNTS), c \in Conventions }

\* one boundary separated differently from the others
MixedDelimiterTexts ==
    UNION { { MakeText(v \div c.spacing, c, OctetRow(v, h, <<"5","e">>, <<"0","A">>, 0, h),
                       at, alt, <<>>, <<>>) :
                at \in {1, (v \div c.spacing) \div 2, (v \div c.spacing) - 1},
                alt \in {<<":">>, <<"-">>, <<".">>, <<>>},
                h \in {<<"0","0">>, <<"F","f">>} } :
            v \in Range(VIABLE_OCTET_COUNTS), c \in Conventions }

\* something before the first or after the last group
AffixedTexts ==
    UNION { { MakeText(v \div c.spacing, c, OctetRow(v, h, <<"5","e">>, <<"0","A">>, 0, h),
                       0, <<>>, pre, suf) :
                pre \in {<<>>, <<" ">>, <<":">>, c.delim},
                suf \in {<<>>, <<"\n">>, <<" ">>, <<"\n","\n">>, <<"\n"," ">>, <<"-">>, c.delim},
                h \in {<<"0","0">>, <<"F","f">>} } :
            v \in Range(VIABLE_OCTET_COUNTS), c \in Conventions }

\* one octet text that is not two hex digits
BrokenOctetStrings ==
    UNION { { MakeText(v \div c.spacing, c,
                       OctetRow(v, <<"0","0">>, <<"5","e">>, <<"0","A">>, at, x),
                       0, <<>>, <<>>, <<>>) :
                at \in {1, v \div 2, v}, x \in BrokenOctetTexts } :
            v \in Range(VIABLE_OCTET_COUNTS), c \in Conventions }

TextInputs ==
    { StrValue(s) : s \in WellFormedTexts \cup WrongCountTexts \cup MixedDelimiterTexts
                          \cup AffixedTexts \cup BrokenOctetStrings \cup {<<>>} }

\* integers: top digit, then `fill`, then `last`, of every length up to MaxIntDigits
IntInputs ==
    { IntValue(FALSE, <<>>) }
    \cup { IntValue(neg, [i \in 1..len |-> IF i = 1 THEN top
                                           ELSE IF i = len THEN last ELSE fill]) :
             neg \in {FALSE, TRUE}, len \in 1..MaxIntDigits,
             top \in {1, 8, 15}, fill \in {0, 15}, last \in {0, 1} }

\* elements of a sequence input
Elements ==
    { IntElem(v) : v \in {-1, 0, 83, 255, 256, 300} }
    \cup { [kind |-> "float", val |-> 1], [kind |-> "float", val |-> 300],
           [kind |-> "str", val |-> 0] }

\* sequences filled with one in-range octet, but for one element
SeqInputs ==
    UNION { { SeqValue([i \in 1..len |-> IF i = at THEN x ELSE IntElem(fill)]) :
                fill \in {0, 94, 255}, at \in {1, 2, len}, x \in Elements } :
            len \in 0..MaxSeqLen }

\* the inputs of the module's documentation and of the address formats it names
ExampleInputs ==
    { StrValue(<<"0","0",":","0","0",":","5","e",":","0","0",":","5","3",":","0","1">>),
      StrValue(<<"0","0",":","0","0","-","5","e",":","0","0",":","5","3",":","0","1">>),
      StrValue(<<"0",":","0",":","5","e",":","0",":","5","3",":","1">>),
      StrValue(<<"0","1","0","2",".","0","3","0","4",".","0","5","0","6",".","0","7","0","8">>),
      StrValue(<<"0","1",":","0","2",":","0","3",":","0","4",":","0","5",":","0","6",":",
                 "0","7",":","0","8">>),
      IntValue(FALSE, <<1,0,2,0,3,0,4,0,5,0,6,0,7,0,8>>),
      SeqValue(<<IntElem(0), IntElem(0), IntElem(94), IntElem(0), IntElem(83), IntElem(1)>>),
      SeqValue(<<IntElem(0), IntElem(0), IntElem(-1), IntElem(0), IntElem(83), IntElem(1)>>) }

Inputs == TextInputs \cup IntInputs \cup SeqInputs \cup ExampleInputs \cup {OtherValue}

(***************************************************************************)
(* The MacAddress object                                                   *)
(***************************************************************************)
VARIABLES
    value,      \* the argument of MacAddress(value)
    pc,         \* "new", "raised", "constructed", "formatted", "revalidated"
    outcome,    \* how validate_mac_address(value) ended
    octets,     \* self._octets
    text,       \* str(self)
    again       \* how validating str(self) ended

vars == <<value, pc, outcome, octets, text, again>>

Init ==
    /\ value \in Inputs
    /\ pc = "new"
    /\ outcome = NoOutcome
    /\ octets = <<>>
    /\ text = <<>>
    /\ again = NoOutcome

\* MacAddress.__init__: self._octets = self.validate_mac_address(value)
\* (an argument that is itself a MacAddress is replaced by its _octets first,
\* which is the bytes case of the sequence inputs)
MacAddressInit ==
    /\ pc = "new"
    /\ outcome' = validate_mac_address(value)
    /\ IF outcome'.status = "ok"
       THEN octets' = outcome'.octets /\ pc' = "constructed"
       ELSE octets' = octets /\ pc' = "raised"
    /\ UNCHANGED <<value, text, again>>

\* MacAddress.__str__: self._octets.hex(':')
MacAddressStr ==
    /\ pc = "constructed"
    /\ text' = BytesHex(octets)
    /\ pc' = "formatted"
    /\ UNCHANGED <<value, outcome, octets, again>>

\* MacAddress._validate(str(self)): the text is not a MacAddress, so a new
\* object is constructed from it
MacAddressValidate ==
    /\ pc = "formatted"
    /\ again' = validate_mac_address(StrValue(text))
    /\ pc' = "revalidated"
    /\ UNCHANGED <<value, outcome, octets, text>>

Next ==
    \/ MacAddressInit
    \/ MacAddressStr
    \/ MacAddressValidate

Spec == Init /\ [][Next]_vars

(***************************************************************************)
(* Vocabulary of the properties                                            *)
(***************************************************************************)
AsciiHex == Range(LowerHex) \cup Range(UpperHex)

Viable == Range(VIABLE_OCTET_COUNTS)

\* s is written in convention c for v octets: v \div spacing groups of
\* 2 * spacing hex digits each, the delimiter between every two groups and
\* nowhere else, nothing before or after
WrittenIn(s, v, c) ==
    LET gw   == 2 * c.spacing
        unit == gw + Len(c.delim)
        g    == v \div c.spacing
    IN /\ Len(s) = g * gw + (g - 1) * Len(c.delim)
       /\ \A i \in 1..Len(s) :
            IF (i - 1) % unit >= gw THEN s[i] = c.delim[1] ELSE s[i] \in AsciiHex

Conventional(s) == \E v \in Viable, c \in Conventions : WrittenIn(s, v, c)

ToLower(ch) ==
    IF ch \in Range(UpperHex) THEN LowerHex[CHOOSE i \in 1..16 : UpperHex[i] = ch] ELSE ch

\* the hex digits of s, lowercased
HexDigitsOf(s) ==
    LET isHex(ch) == ch \in AsciiHex
        digits == SelectSeq(s, isHex)
    IN [i \in 1..Len(digits) |-> ToLower(digits[i])]

\* the hex digits of s, lowercased and regrouped as pairs joined by ':'
Canonicalize(s) ==
    LET d == HexDigitsOf(s)
    IN [i \in 1..(3 * (Len(d) \div 2) - 1) |->
           IF i % 3 = 0 THEN ":" ELSE d[2 * ((i - 1) \div 3) + (i % 3)]]

\* the hex digits of a byte sequence, most significant first
DigitsOf(seq) ==
    [i \in 1..(2 * Len(seq)) |->
        IF i % 2 = 1 THEN seq[(i + 1) \div 2] \div 16 ELSE seq[i \div 2] % 16]

\* the value of a lowercase hex digit
LowerValue(ch) == (CHOOSE i \in 1..16 : LowerHex[i] = ch) - 1

IsOctets(seq) == Len(seq) \in Viable /\ \A i \in 1..Len(seq) : seq[i] \in 0..255

Constructed == pc \in {"constructed", "formatted", "revalidated"}

Formatted == pc \in {"formatted", "revalidated"}

\* C1: a string written in an accepted convention, in any letter case, is
\* accepted; its octets are its hex digits taken in pairs (so they depend
\* on the hex digits alone and leading zero octets are kept), and str() of
\* the object is those digits lowercased and regrouped as pairs joined by ':'.
C1_CanonicalText ==
    (value.type = "str" /\ Conventional(value.s)) =>
        /\ pc # "raised"
        /\ Constructed =>
              DigitsOf(octets) = [i \in 1..Len(HexDigitsOf(value.s)) |->
                                     LowerValue(HexDigitsOf(value.s)[i])]
        /\ Formatted => text = Canonicalize(value.s)

\* a dotted EUI-64 string with a leading zero octet and an upper-case digit
C1_Witness ==
    /\ pc = "formatted"
    /\ value.type = "str"
    /\ WrittenIn(value.s, 8, DELIM_SPACING[3])
    /\ value.s[1] = "0" /\ value.s[2] = "0"
    /\ \E i \in 1..Len(value.s) : value.s[i] = "F"
    /\ Len(text) = 23
    /\ text = Canonicalize(value.s)

\* C2: validating the text that the formatter gives for a constructed
\* address returns that address: same length, same octets in the same order.
C2_RoundTrip ==
    pc = "revalidated" => (again.status = "ok" /\ again.octets = octets)

\* a 20-octet address given as a sequence, its leading octets zero
C2_Witness ==
    /\ pc = "revalidated"
    /\ value.type = "seq"
    /\ Len(octets) = 20
    /\ octets[1] = 0 /\ octets[2] = 255
    /\ again.octets = octets

\* the entries of REGEX_PATTERNS that match s
MatchingPatterns(s) ==
    {i \in 1..Len(REGEX_PATTERNS) : Match(REGEX_PATTERNS[i], s).matched}

\* C3: no two entries of the pattern table match the same string: at most
\* one compiled pattern of REGEX_PATTERNS matches the input string.
C3_MutuallyExclusive ==
    (value.type = "str" /\ pc # "new") => Cardinality(MatchingPatterns(value.s)) <= 1

FormatError(o) == o.status = "error" /\ o.etype = "mac_address_format"

\* the delimiter characters that occur in s
DelimitersIn(s) == Range(s) \cap VALID_DELIMETERS

\* hex characters per group for the delimiter character d, from DELIM_SPACING
GroupWidth(d) ==
    2 * (CHOOSE c \in Conventions : c.delim = <<d>>).spacing

\* s uses a delimiter, yet two whole groups stand side by side without one
PartlyDelimited(s) ==
    \E d \in DelimitersIn(s) :
        \E i \in 1..(Len(s) - 2 * GroupWidth(d) + 1) :
            \A j \in i..(i + 2 * GroupWidth(d) - 1) : s[j] \in AsciiHex

\* the one delimiter of s stands at every group boundary of s and nowhere else
EveryBoundary(s) ==
    \A d \in DelimitersIn(s) :
        \A i \in 1..Len(s) :
            (s[i] = d) <=> (i % (GroupWidth(d) + 1) = 0 /\ i < Len(s))

\* C4: a string with more than one delimiter kind among ':', '-', '.', or
\* with a delimiter between some groups and none between others, is rejected
\* with a mac_address_format error; in every accepted string one delimiter
\* is used at every group boundary.
C4_SingleDelimiter ==
    (value.type = "str" /\ pc # "new") =>
        /\ (Cardinality(DelimitersIn(value.s)) > 1 \/ PartlyDelimited(value.s))
              => FormatError(outcome)
        /\ outcome.status = "ok"
              => (Cardinality(DelimitersIn(value.s)) <= 1 /\ EveryBoundary(value.s))

\* the mixed-delimiter example "00:00-5e:00:53:01" has been rejected
C4_Witness ==
    /\ pc = "raised"
    /\ value.type = "str"
    /\ DelimitersIn(value.s) = {":", "-"}
    /\ Len(value.s) = 17 /\ value.s[6] = "-" /\ value.s[3] = ":"
    /\ FormatError(outcome)

\* ceil(bitLength / 8) of a magnitude of hex digits
CeilOctets(mag) == (Len(mag) + 1) \div 2

SmallestViable(m) ==
    CHOOSE c \in Viable : c >= m /\ \A c2 \in Viable : c2 >= m => c <= c2

\* C5: a non-negative integer needing at most 20 octets is returned as its
\* big-endian encoding left-padded with zero octets to the smallest count
\* of {6, 8, 20} that holds it (0: six zero octets; 8 octets needed: 8
\* octets; 9 needed: 20).
C5_IntegerPath ==
    (value.type = "int" /\ ~value.neg /\ pc # "new" /\ CeilOctets(value.mag) <= 20) =>
        /\ outcome.status = "ok"
        /\ Len(outcome.octets) = SmallestViable(CeilOctets(value.mag))
        /\ \A i \in 1..Len(outcome.octets) : outcome.octets[i] \in 0..255
        /\ Normalize(DigitsOf(outcome.octets)) = value.mag
        /\ octets = outcome.octets

\* an integer that needs 9 octets has been encoded in 20
C5_Witness ==
    /\ pc = "constructed"
    /\ value.type = "int" /\ ~value.neg
    /\ CeilOctets(value.mag) = 9
    /\ Len(octets) = 20
    /\ octets[11] = 0 /\ octets[12] # 0

AllInts(elems) == \A i \in 1..Len(elems) : elems[i].kind = "int"

\* C6: a sequence of integers with an element above 255 or below 0 fails
\* with a mac_address_format error and returns no address.
C6_OctetRange ==
    (/\ value.type = "seq" /\ pc # "new"
     /\ AllInts(value.elems)
     /\ \E i \in 1..Len(value.elems) :
            value.elems[i].val > 255 \/ value.elems[i].val < 0)
        => FormatError(outcome)

\* a string, a non-negative integer or a non-empty sequence of integers only
AcceptableShape(v) ==
    \/ v.type = "str"
    \/ v.type = "int" /\ ~v.neg
    \/ v.type \in {"seq", "bytes"} /\ v.elems # <<>> /\ AllInts(v.elems)

\* C7: an input that is not a string, a non-negative integer or a non-empty
\* sequence of integers only (a negative integer, an empty sequence, a
\* sequence whose first element is an integer but a later one is not, a
\* non-sequence object) ends with a mac_address_type/mac_address_format
\* error, never with another exception.
C7_StructuredErrors ==
    (pc # "new" /\ ~AcceptableShape(value)) =>
        /\ outcome.status = "error"
        /\ outcome.etype \in {"mac_address_type", "mac_address_format"}

\* C8: a sequence of octets whose length is not in {6, 8, 20} fails with a
\* mac_address_format error that reports n = its length, and a non-negative
\* integer needing more than 20 octets is encoded at that count and fails
\* the same way.
C8_LengthReported ==
    /\ (/\ value.type = "seq" /\ pc # "new"
        /\ \A i \in 1..Len(value.elems) :
               value.elems[i].kind = "int" /\ value.elems[i].val \in 0..255
        /\ Len(value.elems) \notin Viable)
          => (FormatError(outcome) /\ outcome.n = Len(value.elems))
    /\ (value.type = "int" /\ ~value.neg /\ pc # "new" /\ CeilOctets(value.mag) > 20)
          => (FormatError(outcome) /\ outcome.n = CeilOctets(value.mag))

\* a returned value is a whole address; a sequence input is passed through
Whole(v, o) ==
    o.status = "ok" =>
        /\ IsOctets(o.octets)
        /\ v.type = "seq" => o.octets = [i \in 1..Len(v.elems) |-> v.elems[i].val]

\* C9: no partial success: a call either raises or returns a byte sequence
\* of length 6, 8 or 20 with every element in 0..255, which for a sequence
\* input is the input's elements in order; the object holds what was returned.
C9_NoPartialSuccess ==
    /\ Whole(value, outcome)
    /\ Whole(StrValue(text), again)
    /\ Constructed => (outcome.status = "ok" /\ octets = outcome.octets)
    /\ pc = "raised" => (outcome.status \in {"error", "fault"} /\ octets = <<>>)

\* the sequence [0, 0, 94, 0, 83, 1] has been passed through
C9_Witness ==
    /\ pc = "constructed"
    /\ value.type = "seq"
    /\ octets = <<0, 0, 94, 0, 83, 1>>
    /\ [i \in 1..6 |-> value.elems[i].val] = octets

\* C10: the text path accepts a string only when the whole string is N
\* two-hex-digit groups (N in {6, 8, 20}) or N/2 four-hex-digit groups of
\* characters 0-9a-fA-F joined by the delimiter; every other string fails
\* at the grammar match with mac_address_format.
C10_WholeStringGrammar ==
    (value.type = "str" /\ pc # "new" /\ ~Conventional(value.s)) =>
        /\ FormatError(outcome)
        /\ outcome.msg = "Length and/or format of MAC address string is incorrect."

====
